---- MODULE Spec2Model ----
(***************************************************************************)
(* SmartAcid business-case calculator (src/app.py).                        *)
(*                                                                         *)
(* The script is re-run from top to bottom on every widget change.  Its    *)
(* state is the widget values (ui) and the values the run computes from    *)
(* them (out).  The three clipping rules allocate_sequential,              *)
(* allocate_proportional and allocate_weighted are pure functions; they    *)
(* are operators here, and SpecAlloc calls each of them on every input of  *)
(* a bounded grid (call, credited).                                        *)
(*                                                                         *)
(* Python floats are modelled as exact rationals <<n, d>> in lowest terms  *)
(* with d > 0, so every equality below is an equality of real numbers;     *)
(* floating-point rounding is not modelled.                                *)
(***************************************************************************)
EXTENDS Integers, Sequences, FiniteSets, TLC

VARIABLES ui, out, call, credited

vars == <<ui, out, call, credited>>

(***************************************************************************)
(* Bounds of the model.                                                    *)
(***************************************************************************)
MaxDelta == 2

MaxWeight == 2

MaxExcess == 5

MaxEdits == 2

(***************************************************************************)
(* Float arithmetic, exact.                                                *)
(***************************************************************************)
Abs(n) == IF n < 0 THEN -n ELSE n

RECURSIVE GCD(_, _)
GCD(a, b) == IF b = 0 THEN a ELSE GCD(b, a % b)

Rat(n, d) == LET g == GCD(Abs(n), d) IN <<n \div g, d \div g>>

Q(n) == <<n, 1>>

Zero == Q(0)

One == Q(1)

RAdd(x, y) ==
    LET g == GCD(x[2], y[2])
    IN  Rat(x[1] * (y[2] \div g) + y[1] * (x[2] \div g), (x[2] \div g) * y[2])

RSub(x, y) == RAdd(x, <<-y[1], y[2]>>)

RMul(x, y) ==
    LET g1 == GCD(Abs(x[1]), y[2])
        g2 == GCD(Abs(y[1]), x[2])
    IN  Rat((x[1] \div g1) * (y[1] \div g2), (x[2] \div g2) * (y[2] \div g1))

\* x / y for y > 0 (every division of the script has a positive divisor)
RDiv(x, y) == RMul(x, <<y[2], y[1]>>)

RLeq(x, y) == x[1] * y[2] <= y[1] * x[2]

RLess(x, y) == x[1] * y[2] < y[1] * x[2]

RMax(x, y) == IF RLeq(x, y) THEN y ELSE x

\* Python's sum() over a list
RECURSIVE Sum(_)
Sum(s) == IF s = <<>> THEN Zero ELSE RAdd(Head(s), Sum(Tail(s)))

(***************************************************************************)
(* Clipping rules.                                                         *)
(***************************************************************************)
ORDER == <<"C1", "C2", "C3", "C4">>

NComp == Len(ORDER)

\* remaining_excess of allocate_sequential after k iterations of its loop
RECURSIVE remaining_excess(_, _, _)
remaining_excess(deltas, limit_excess, k) ==
    IF k = 0
    THEN RMax(limit_excess, Zero)
    ELSE LET r == remaining_excess(deltas, limit_excess, k - 1)
         IN  IF RLeq(r, Zero) THEN r ELSE RMax(RSub(r, deltas[k]), Zero)

\* Variant: the loop runs over the components from the last to the first.
RECURSIVE remaining_before_from_last(_, _, _)
remaining_before_from_last(deltas, limit_excess, k) ==
    IF k = Len(deltas)
    THEN RMax(limit_excess, Zero)
    ELSE LET r == remaining_before_from_last(deltas, limit_excess, k + 1)
         IN  IF RLeq(r, Zero) THEN r ELSE RMax(RSub(r, deltas[k + 1]), Zero)

allocate_sequential_last_first(deltas, limit_excess) ==
    [k \in 1..Len(deltas) |->
        LET r == remaining_before_from_last(deltas, limit_excess, k)
        IN  IF RLeq(r, Zero)
            THEN deltas[k]
            ELSE RMax(RSub(deltas[k], r), Zero)]

allocate_sequential(deltas, limit_excess) ==
    [k \in 1..Len(deltas) |->
        LET r == remaining_excess(deltas, limit_excess, k - 1)
        IN  IF RLeq(r, Zero)
            THEN deltas[k]
            ELSE RMax(RSub(deltas[k], r), Zero)]

allocate_proportional(deltas, limit_excess) ==
    LET S == Sum(deltas)
    IN  IF RLeq(S, Zero) \/ RLeq(limit_excess, Zero)
        THEN deltas
        ELSE LET factor == RMax(RSub(One, RDiv(limit_excess, S)), Zero)
             IN  [k \in 1..Len(deltas) |-> RMax(RMul(deltas[k], factor), Zero)]

\* Variant: the cut is shared by weight alone, w_i / sum(w).
allocate_weighted_by_weight(deltas, weights, limit_excess) ==
    LET S == Sum(weights)
    IN  IF RLeq(S, Zero) \/ RLeq(limit_excess, Zero)
        THEN deltas
        ELSE [k \in 1..Len(deltas) |->
                LET cut_i == RMul(limit_excess, RDiv(weights[k], S))
                IN  RMax(RSub(deltas[k], cut_i), Zero)]

\* Variant: the early return hands back wd instead of deltas.
allocate_weighted_returns_wd(deltas, weights, limit_excess) ==
    LET wd == [k \in 1..Len(deltas) |-> RMul(weights[k], deltas[k])]
        S  == Sum(wd)
    IN  IF RLeq(S, Zero) \/ RLeq(limit_excess, Zero)
        THEN wd
        ELSE [k \in 1..Len(deltas) |->
                LET cut_i == RMul(limit_excess, RDiv(wd[k], S))
                IN  RMax(RSub(deltas[k], cut_i), Zero)]

\* Variant: the weights are not applied, wd = deltas.
allocate_weighted_ignores_weights(deltas, weights, limit_excess) ==
    LET wd == deltas
        S  == Sum(wd)
    IN  IF RLeq(S, Zero) \/ RLeq(limit_excess, Zero)
        THEN deltas
        ELSE [k \in 1..Len(deltas) |->
                LET cut_i == RMul(limit_excess, RDiv(wd[k], S))
                IN  RMax(RSub(deltas[k], cut_i), Zero)]

\* Variant: credited.append(d - cut_i), without the max(..., 0.0).
allocate_weighted_unclamped(deltas, weights, limit_excess) ==
    LET wd == [k \in 1..Len(deltas) |-> RMul(weights[k], deltas[k])]
        S  == Sum(wd)
    IN  IF RLeq(S, Zero) \/ RLeq(limit_excess, Zero)
        THEN deltas
        ELSE [k \in 1..Len(deltas) |->
                LET cut_i == RMul(limit_excess, RDiv(wd[k], S))
                IN  RSub(deltas[k], cut_i)]

allocate_weighted(deltas, weights, limit_excess) ==
    LET wd == [k \in 1..Len(deltas) |-> RMul(weights[k], deltas[k])]
        S  == Sum(wd)
    IN  IF RLeq(S, Zero) \/ RLeq(limit_excess, Zero)
        THEN deltas
        ELSE [k \in 1..Len(deltas) |->
                LET cut_i == RMul(limit_excess, RDiv(wd[k], S))
                IN  RMax(RSub(deltas[k], cut_i), Zero)]

(***************************************************************************)
(* SpecAlloc: one call of one clipping rule on drawn arguments.            *)
(***************************************************************************)
DeltaLists == [1..NComp -> {Q(n) : n \in 0..MaxDelta}]

WeightLists == [1..NComp -> {Q(n) : n \in 0..MaxWeight}]

Excesses == {Q(n) : n \in 0..MaxExcess}

NoCall == [fn |-> "none", deltas |-> <<>>, weights |-> <<>>, limit_excess |-> Zero]

CallSequential ==
    /\ call.fn = "none"
    /\ call' = [call EXCEPT !.fn = "sequential"]
    /\ credited' = allocate_sequential(call.deltas, call.limit_excess)
    /\ UNCHANGED <<ui, out>>

CallProportional ==
    /\ call.fn = "none"
    /\ call' = [call EXCEPT !.fn = "proportional"]
    /\ credited' = allocate_proportional(call.deltas, call.limit_excess)
    /\ UNCHANGED <<ui, out>>

CallWeighted ==
    /\ call.fn = "none"
    /\ \E w \in WeightLists :
        /\ call' = [call EXCEPT !.fn = "weighted", !.weights = w]
        /\ credited' = allocate_weighted(call.deltas, w, call.limit_excess)
    /\ UNCHANGED <<ui, out>>

NextAlloc == CallSequential \/ CallProportional \/ CallWeighted

(***************************************************************************)
(* The script: sidebar widgets.                                            *)
(***************************************************************************)
Rules == {"Secuencial", "Proporcional", "Ponderada"}

DefaultWeights == [k \in 1..NComp |-> One]

\* The session the exploration starts from: the widget defaults for the
\* baselines, the floor, the grade, the switches, the per-component deltas,
\* the rule and the weights; the ceiling lowered to 63 (a breached ceiling);
\* tonnage and prices at small legal slider values.
Base ==
    [T_Mt      |-> <<1, 10>>,
     G_pct     |-> <<1, 2>>,
     R0_pct    |-> Q(60),
     A0_kgpt   |-> Q(35),
     P_Cu      |-> Q(50),
     P_Acid    |-> Q(5),
     Rmax_pct  |-> Q(63),
     Amin_kgpt |-> Q(20),
     switches  |-> [k \in 1..NComp |-> 1],
     dR_list   |-> <<<<1, 2>>, <<6, 5>>, <<7, 10>>, Q(3)>>,
     dA_list   |-> <<<<7, 10>>, <<7, 5>>, <<11, 10>>, <<33, 10>>>>,
     rule      |-> "Secuencial",
     weights   |-> DefaultWeights]

\* Slider and number-input values the exploration moves to.
Values_T_Mt == {Zero, <<1, 10>>}

Values_G_pct == {Zero, <<1, 2>>}

Values_R0_pct == {Q(60), Q(62)}

Values_A0_kgpt == {Q(35), Q(33)}

Values_P_Cu == {Q(0), Q(50)}

Values_P_Acid == {Q(0), Q(5)}

Values_Rmax_pct == {Q(59), Q(62), Q(63), Q(75)}

Values_Amin_kgpt == {Q(20), Q(30), Q(36)}

Values_delta == {Q(n) : n \in 0..MaxDelta}

\* the ends of the weight sliders and their default
Values_weight == {Zero, One, Q(5)}

(***************************************************************************)
(* The script: main calculation, one run on the widget values u.  The      *)
(* LET definitions are the script's assignments, in the script's order.    *)
(***************************************************************************)
\* the if / elif / else on rule that picks the clipping rule
apply_rule(rule, deltas, weights, limit_excess) ==
    IF rule = "Secuencial"
    THEN allocate_sequential(deltas, limit_excess)
    ELSE IF rule = "Proporcional"
         THEN allocate_proportional(deltas, limit_excess)
         ELSE allocate_weighted(deltas, weights, limit_excess)

\* the bars of the waterfall: the benefits and, last, their total
waterfall_benefit(benefits) == benefits \o <<Sum(benefits)>>

\* Variant: the acid saving of a component divided by 100 instead of 1000.
B_i_acid_per_100(Cu_in_tpy, T, dR_i, dA_i, P_Cu, P_Acid) ==
    LET dCu_i == RMul(Cu_in_tpy, RDiv(dR_i, Q(100)))
        acid_saved_i_tpy == RMul(T, RDiv(dA_i, Q(100)))
    IN  RAdd(RMul(dCu_i, P_Cu), RMul(acid_saved_i_tpy, P_Acid))

\* the body of the loop that fills B_by
B_i(Cu_in_tpy, T, dR_i, dA_i, P_Cu, P_Acid) ==
    LET dCu_i == RMul(Cu_in_tpy, RDiv(dR_i, Q(100)))
        acid_saved_i_tpy == RMul(T, RDiv(dA_i, Q(1000)))
    IN  RAdd(RMul(dCu_i, P_Cu), RMul(acid_saved_i_tpy, P_Acid))

Script(u) ==
    LET T == RMul(u.T_Mt, Q(1000000))
        Cu_in_tpy == RMul(T, RDiv(u.G_pct, Q(100)))
        active_mask == [k \in 1..NComp |-> u.switches[k] = 1]
        dR_active == [k \in 1..NComp |-> IF active_mask[k] THEN u.dR_list[k] ELSE Zero]
        dA_active == [k \in 1..NComp |-> IF active_mask[k] THEN u.dA_list[k] ELSE Zero]
        R_raw == RAdd(u.R0_pct, Sum(dR_active))
        excess_R == RMax(RSub(R_raw, u.Rmax_pct), Zero)
        dR_accredited == apply_rule(u.rule, dR_active, u.weights, excess_R)
        R_final == RAdd(u.R0_pct, Sum(dR_accredited))
        A_raw == RSub(u.A0_kgpt, Sum(dA_active))
        excess_A == RMax(RSub(u.Amin_kgpt, A_raw), Zero)
        dA_accredited == apply_rule(u.rule, dA_active, u.weights, excess_A)
        A_final == RSub(u.A0_kgpt, Sum(dA_accredited))
        dR_total_pts == RSub(R_final, u.R0_pct)
        dA_total_kgpt == RSub(u.A0_kgpt, A_final)
        dCu_tpy == RMul(Cu_in_tpy, RDiv(dR_total_pts, Q(100)))
        acid_saved_tpy == RMul(T, RDiv(dA_total_kgpt, Q(1000)))
        B_Cu == RMul(dCu_tpy, u.P_Cu)
        B_Acid == RMul(acid_saved_tpy, u.P_Acid)
        B_total == RAdd(B_Cu, B_Acid)
        B_by == [i \in 1..NComp |->
                    B_i(Cu_in_tpy, T, dR_accredited[i], dA_accredited[i], u.P_Cu, u.P_Acid)]
    IN  [dR_active     |-> dR_active,
         dA_active     |-> dA_active,
         R_raw         |-> R_raw,
         A_raw         |-> A_raw,
         excess_R      |-> excess_R,
         excess_A      |-> excess_A,
         dR_accredited |-> dR_accredited,
         dA_accredited |-> dA_accredited,
         R_final       |-> R_final,
         A_final       |-> A_final,
         dR_total_pts  |-> dR_total_pts,
         dA_total_kgpt |-> dA_total_kgpt,
         B_total       |-> B_total,
         B_by          |-> B_by,
         y             |-> waterfall_benefit(B_by)]

(***************************************************************************)
(* Spec: a session.  Each widget change re-runs the script.  The           *)
(* exploration stays within MaxEdits widgets of Base.                      *)
(***************************************************************************)
ScalarWidgets ==
    {"T_Mt", "G_pct", "R0_pct", "A0_kgpt", "P_Cu", "P_Acid", "Rmax_pct", "Amin_kgpt", "rule"}

ListWidgets == {"switches", "dR_list", "dA_list", "weights"}

Edits(u) ==
    Cardinality({f \in ScalarWidgets : u[f] # Base[f]})
    + Cardinality({p \in ListWidgets \X (1..NComp) : u[p[1]][p[2]] # Base[p[1]][p[2]]})

Rerun(u) ==
    /\ u # ui
    /\ Edits(u) <= MaxEdits
    /\ ui' = u
    /\ out' = Script(u)

Set_T_Mt ==
    /\ \E v \in Values_T_Mt : Rerun([ui EXCEPT !.T_Mt = v])
    /\ UNCHANGED <<call, credited>>

Set_G_pct ==
    /\ \E v \in Values_G_pct : Rerun([ui EXCEPT !.G_pct = v])
    /\ UNCHANGED <<call, credited>>

Set_R0_pct ==
    /\ \E v \in Values_R0_pct : Rerun([ui EXCEPT !.R0_pct = v])
    /\ UNCHANGED <<call, credited>>

Set_A0_kgpt ==
    /\ \E v \in Values_A0_kgpt : Rerun([ui EXCEPT !.A0_kgpt = v])
    /\ UNCHANGED <<call, credited>>

Set_P_Cu ==
    /\ \E v \in Values_P_Cu : Rerun([ui EXCEPT !.P_Cu = v])
    /\ UNCHANGED <<call, credited>>

Set_P_Acid ==
    /\ \E v \in Values_P_Acid : Rerun([ui EXCEPT !.P_Acid = v])
    /\ UNCHANGED <<call, credited>>

Set_Rmax_pct ==
    /\ \E v \in Values_Rmax_pct : Rerun([ui EXCEPT !.Rmax_pct = v])
    /\ UNCHANGED <<call, credited>>

Set_Amin_kgpt ==
    /\ \E v \in Values_Amin_kgpt : Rerun([ui EXCEPT !.Amin_kgpt = v])
    /\ UNCHANGED <<call, credited>>

Set_switch ==
    /\ \E k \in 1..NComp : Rerun([ui EXCEPT !.switches[k] = 1 - ui.switches[k]])
    /\ UNCHANGED <<call, credited>>

Set_dR ==
    /\ \E k \in 1..NComp, v \in Values_delta : Rerun([ui EXCEPT !.dR_list[k] = v])
    /\ UNCHANGED <<call, credited>>

Set_dA ==
    /\ \E k \in 1..NComp, v \in Values_delta : Rerun([ui EXCEPT !.dA_list[k] = v])
    /\ UNCHANGED <<call, credited>>

\* the weight sliders exist only under "Ponderada"; a change of rule
\* leaves the weights at [1.0, 1.0, 1.0, 1.0]
Set_rule ==
    /\ \E r \in Rules : Rerun([ui EXCEPT !.rule = r, !.weights = DefaultWeights])
    /\ UNCHANGED <<call, credited>>

Set_weight ==
    /\ ui.rule = "Ponderada"
    /\ \E k \in 1..NComp, v \in Values_weight : Rerun([ui EXCEPT !.weights[k] = v])
    /\ UNCHANGED <<call, credited>>

Init ==
    /\ ui = Base
    /\ out = Script(Base)
    /\ call = NoCall
    /\ credited = <<>>

Next ==
    \/ Set_T_Mt
    \/ Set_G_pct
    \/ Set_R0_pct
    \/ Set_A0_kgpt
    \/ Set_P_Cu
    \/ Set_P_Acid
    \/ Set_Rmax_pct
    \/ Set_Amin_kgpt
    \/ Set_switch
    \/ Set_dR
    \/ Set_dA
    \/ Set_rule
    \/ Set_weight

Spec == Init /\ [][Next]_vars

InitAlloc ==
    /\ ui = Base
    /\ out = Script(Base)
    /\ call \in [fn : {"none"}, deltas : DeltaLists, weights : {<<>>},
                 limit_excess : Excesses]
    /\ credited = <<>>

SpecAlloc == InitAlloc /\ [][NextAlloc]_vars

(***************************************************************************)
(* Properties.                                                             *)
(***************************************************************************)
Comps == 1..NComp

Returned == call.fn # "none"

SumRaw == Sum(call.deltas)

\* sum of weight * delta of the weighted call
SumWD == Sum([k \in Comps |-> RMul(call.weights[k], call.deltas[k])])

EqualWeights == \A k \in Comps : call.weights[k] = call.weights[1]

\* C1 (Spec) - Clamping: after every run the final recovery is at most the
\* ceiling Rmax and the final acid is at least the floor Amin, whatever the
\* baselines, limits, deltas, switches, weights and rule.
Claim_C1_Clamping ==
    /\ RLeq(out.R_final, ui.Rmax_pct)
    /\ RLeq(ui.Amin_kgpt, out.A_final)

\* C2 (SpecAlloc) - Reconciliation: each rule, called with an excess of at
\* most sum(raw), returns a list that sums to exactly sum(raw) - excess.
Claim_C2_Reconciliation ==
    (Returned /\ RLeq(call.limit_excess, SumRaw))
        => Sum(credited) = RSub(SumRaw, call.limit_excess)

\* C3 (SpecAlloc) - Over-claim yields zero: each rule, called with an excess
\* strictly greater than sum(raw), credits 0 to every component.
Claim_C3_OverClaimZero ==
    (Returned /\ RLess(SumRaw, call.limit_excess))
        => \A k \in Comps : credited[k] = Zero

\* C4 (SpecAlloc) - First-registered, first-protected: in allocate_sequential
\* with excess > 0, a component credited less than its raw delta is followed
\* only by components credited 0 (so the components before the first reduced
\* one keep their raw delta and the later ones absorb the overage).
Claim_C4_FirstProtected ==
    (call.fn = "sequential" /\ RLess(Zero, call.limit_excess))
        => \A i \in Comps :
              RLess(credited[i], call.deltas[i])
                  => \A j \in Comps : j > i => credited[j] = Zero

Thm_C7_ZeroExcessIdentity ==
    (Returned /\ call.limit_excess = Zero) => credited = call.deltas

Wit_C7_ZeroExcessIdentity ==
    /\ call.fn = "weighted"
    /\ call.limit_excess = Zero
    /\ RLess(Zero, SumWD)
    /\ \E k \in Comps : call.weights[k] = Q(2) /\ RLess(Zero, call.deltas[k])
    /\ credited = call.deltas

Thm_C9_BenefitReconciles ==
    /\ \A i \in Comps : RLeq(Zero, out.B_by[i])
    /\ Sum(out.B_by) = out.B_total
    /\ out.y[NComp + 1] = out.B_total

Wit_C9_BenefitReconciles ==
    /\ RLess(Zero, out.excess_R)
    /\ RLess(Zero, out.excess_A)
    /\ ui.rule = "Proporcional"
    /\ \A i \in Comps :
          /\ RLess(Zero, out.dR_accredited[i])
          /\ RLess(out.dR_accredited[i], out.dR_active[i])
          /\ RLess(Zero, out.dA_accredited[i])
          /\ RLess(out.dA_accredited[i], out.dA_active[i])
          /\ RLess(Zero, out.B_by[i])
    /\ Sum(out.B_by) = out.B_total

\* C10 (SpecAlloc) - Credited bounds: each rule returns 0 <= credited_i <=
\* raw_i for every component, and in allocate_sequential remaining_excess is
\* >= 0 and does not grow from one loop iteration to the next.
Thm_C10_CreditedBounds ==
    /\ Returned
        => \A k \in Comps :
              RLeq(Zero, credited[k]) /\ RLeq(credited[k], call.deltas[k])
    /\ call.fn = "sequential"
        => \A k \in Comps :
              /\ RLeq(Zero, remaining_excess(call.deltas, call.limit_excess, k))
              /\ RLeq(remaining_excess(call.deltas, call.limit_excess, k),
                      remaining_excess(call.deltas, call.limit_excess, k - 1))

Wit_C10_CreditedBounds ==
    /\ call.fn = "weighted"
    /\ RLess(Zero, call.limit_excess)
    /\ \E k \in Comps : credited[k] = Zero /\ RLess(Zero, call.deltas[k])
    /\ \E j \in Comps : RLess(Zero, credited[j]) /\ RLess(credited[j], call.deltas[j])

====
